---- MODULE Spec2Model ----
(***************************************************************************)
(* The DeepFilterNet3 -> Core ML conversion script                         *)
(* (ml-models/scripts/convert_to_coreml.py) as a state machine.            *)
(*                                                                         *)
(* One process invocation runs __main__: it creates the output directory,  *)
(* calls convert_model and exits with a status.  convert_model is modelled *)
(* statement group by statement group; every call into torch, coremltools  *)
(* or the DeepFilterNet loader that the code wraps in (or leaves out of) a *)
(* try block either completes or raises, chosen by the environment.  The   *)
(* file system (output directory, file at the output path) outlives the    *)
(* process, so the script can be invoked again on what an earlier          *)
(* invocation left behind.                                                 *)
(***************************************************************************)
EXTENDS Integers, Sequences, FiniteSets, TLC

\* ---- bounds of the model ------------------------------------------------
MaxFft == 2
MaxHop == 5
MaxEpoch == 1
MaxRuns == 2

\* Values ModelParams() may hold (positive sizes; the code relates hop_size to fft_size
\* nowhere); 768/384 is the 48 kHz configuration.
FftSizes == (1..MaxFft) \cup {768}
HopSizes == (1..MaxHop) \cup {384}
SampleRates == {48000}
ErbBands == {32}
DfBands == {96}

\* What init_df may return as epoch: the requested name or a checkpoint number.
Epochs ==
    {[kind |-> "str", s |-> "best"]} \cup {[kind |-> "int", n |-> n] : n \in 0..MaxEpoch}

\* ---- values ---------------------------------------------------------------
NoParams == [kind |-> "unset"]
NoEpoch == [kind |-> "unset"]
NoShape == [kind |-> "unset"]
NoModel == [kind |-> "unset"]
NoFile == [kind |-> "absent"]
\* What a save that raised part-way may leave at the output path.
PartialFile == [kind |-> "partial"]

\* ---- pure helpers -----------------------------------------------------------
Digit(d) ==
    CASE d = 0 -> "0" [] d = 1 -> "1" [] d = 2 -> "2" [] d = 3 -> "3" [] d = 4 -> "4"
      [] d = 5 -> "5" [] d = 6 -> "6" [] d = 7 -> "7" [] d = 8 -> "8" [] d = 9 -> "9"

RECURSIVE IntStr(_)
IntStr(n) == IF n < 10 THEN Digit(n) ELSE IntStr(n \div 10) \o Digit(n % 10)

\* The text an f-string replacement field {epoch} produces.
FormatEpoch(e) == IF e.kind = "str" THEN e.s ELSE IntStr(e.n)

\* Faulty variant: the separator between the minor version and the epoch is dropped.
VersionStringNoDot(e) == "3.0" \o FormatEpoch(e)

\* mlmodel.version = f"3.0.{epoch}"
VersionString(e) == "3.0." \o FormatEpoch(e)

\* Faulty variant: one frame instead of two.
NumSamplesOneFrame(params) == params.fft_size

\* num_samples = p.fft_size * 2
NumSamples(params) == params.fft_size * 2

\* ct.Shape(shape=(1, ct.RangeDim(p.hop_size, num_samples * 10)))
InputShape(params, n) ==
    [kind |-> "shape", batch |-> 1, lower_bound |-> params.hop_size, upper_bound |-> n * 10]

\* The MLModel ct.convert returns: tensor names and input range set, metadata not yet.
ConvertedModel(shape) ==
    [kind |-> "mlmodel", inputName |-> "audio", outputName |-> "enhanced_audio",
     lower_bound |-> shape.lower_bound, upper_bound |-> shape.upper_bound,
     author |-> "", license |-> "", short_description |-> "", version |-> ""]

\* Faulty variant: the version assignment is left out.
WithMetadataNoVersion(m, e) ==
    [m EXCEPT !.author = "Vocana (DeepFilterNet by Rikorose)",
              !.license = "MIT/Apache-2.0",
              !.short_description = "Deep learning-based noise suppression"]

\* The four metadata assignments.
WithMetadata(m, e) ==
    [m EXCEPT !.author = "Vocana (DeepFilterNet by Rikorose)",
              !.license = "MIT/Apache-2.0",
              !.short_description = "Deep learning-based noise suppression",
              !.version = VersionString(e)]

\* The package mlmodel.save writes: the model as it is when save is called.
SavedPackage(m) == [m EXCEPT !.kind = "package"]

\* ---- state ------------------------------------------------------------------
VARIABLES
    pc,           \* position of the process
    run,          \* number of the current process invocation
    dirExists,    \* output_path.parent exists
    artifact,     \* what is at output_path
    artifact0,    \* history: what was at output_path when this invocation started
    wrote,        \* history: this invocation's save wrote at output_path
    p,            \* ModelParams()
    epoch,        \* epoch returned by init_df
    num_samples,  \* example input length
    traced_model, \* TRUE once torch.jit.trace returned
    input_shape,  \* the ct.Shape declared for "audio"
    mlmodel,      \* the converted model held in memory
    returned,     \* convert_model's return value: "unset", "True", "False"
    exitStatus,   \* process exit status, -1 while running
    reported,     \* failure kinds printed by the except handlers
    log           \* history: the calls made by this invocation, in order

vars == <<pc, run, dirExists, artifact, artifact0, wrote, p, epoch, num_samples, traced_model,
          input_shape, mlmodel, returned, exitStatus, reported, log>>

fs == <<dirExists, artifact, artifact0, wrote>>
locals == <<p, epoch, num_samples, traced_model, input_shape, mlmodel>>

Init ==
    /\ pc = "Boot"
    /\ run = 1
    /\ dirExists = FALSE
    /\ artifact = NoFile
    /\ artifact0 = NoFile
    /\ wrote = FALSE
    /\ p = NoParams
    /\ epoch = NoEpoch
    /\ num_samples = 0
    /\ traced_model = FALSE
    /\ input_shape = NoShape
    /\ mlmodel = NoModel
    /\ returned = "unset"
    /\ exitStatus = -1
    /\ reported = {}
    /\ log = <<>>

\* ---- __main__ up to the call of convert_model --------------------------------
\* output_path.parent.mkdir(parents=True, exist_ok=True)
Mkdir ==
    /\ pc = "Boot"
    /\ dirExists' = TRUE
    /\ pc' = "Start"
    /\ log' = Append(log, "mkdir")
    /\ UNCHANGED <<run, artifact, artifact0, wrote, locals, returned, exitStatus, reported>>

\* ---- convert_model -----------------------------------------------------------
\* init_df, model.eval(), model.to("cpu"), ModelParams() and the parameter prints.
InitDf ==
    /\ pc = "Start"
    /\ \E f \in FftSizes, h \in HopSizes, sr \in SampleRates, ne \in ErbBands,
          nd \in DfBands, e \in Epochs :
          /\ p' = [kind |-> "params", sr |-> sr, fft_size |-> f, hop_size |-> h,
                   nb_erb |-> ne, nb_df |-> nd]
          /\ epoch' = e
    /\ pc' = "Loaded"
    /\ log' = Append(log, "init_df")
    /\ UNCHANGED <<run, fs, num_samples, traced_model, input_shape, mlmodel, returned,
                   exitStatus, reported>>

\* The loader raises: no handler encloses it, the exception leaves convert_model and
\* __main__, and the interpreter ends the process with status 1.
InitDfRaise ==
    /\ pc = "Start"
    /\ pc' = "Exited"
    /\ exitStatus' = 1
    /\ log' = Append(log, "init_df")
    /\ UNCHANGED <<run, fs, locals, returned, reported>>

\* Faulty variant: the frame size is doubled in place on the parameter object.
BuildExampleInPlace ==
    /\ pc = "Loaded"
    /\ p' = [p EXCEPT !.fft_size = p.fft_size * 2]
    /\ num_samples' = p.fft_size * 2
    /\ pc' = "ShapeContractBuilt"
    /\ log' = Append(log, "randn")
    /\ UNCHANGED <<run, fs, epoch, traced_model, input_shape, mlmodel, returned,
                   exitStatus, reported>>

\* batch_size, num_samples and the synthetic example input.
BuildExample ==
    /\ pc = "Loaded"
    /\ num_samples' = NumSamples(p)
    /\ pc' = "ShapeContractBuilt"
    /\ log' = Append(log, "randn")
    /\ UNCHANGED <<run, fs, p, epoch, traced_model, input_shape, mlmodel, returned,
                   exitStatus, reported>>

\* torch.jit.trace returns.
TraceOk ==
    /\ pc = "ShapeContractBuilt"
    /\ traced_model' = TRUE
    /\ pc' = "Traced"
    /\ log' = Append(log, "trace")
    /\ UNCHANGED <<run, fs, p, epoch, num_samples, input_shape, mlmodel, returned,
                   exitStatus, reported>>

\* Faulty variant: the handler prints and falls through to the conversion (no return).
TraceRaiseFallsThrough ==
    /\ pc = "ShapeContractBuilt"
    /\ reported' = reported \cup {"TraceFailure"}
    /\ pc' = "Traced"
    /\ log' = Append(log, "trace")
    /\ UNCHANGED <<run, fs, locals, returned, exitStatus>>

\* Faulty variant: the handler traces once more instead of returning.
TraceRaiseRetries ==
    /\ pc = "ShapeContractBuilt"
    /\ Len(log) < 6
    /\ reported' = reported \cup {"TraceFailure"}
    /\ pc' = "ShapeContractBuilt"
    /\ log' = Append(log, "trace")
    /\ UNCHANGED <<run, fs, locals, returned, exitStatus>>

\* torch.jit.trace raises: the first except handler prints and returns False.
TraceRaise ==
    /\ pc = "ShapeContractBuilt"
    /\ reported' = reported \cup {"TraceFailure"}
    /\ returned' = "False"
    /\ pc' = "TraceFailed"
    /\ log' = Append(log, "trace")
    /\ UNCHANGED <<run, fs, locals, exitStatus>>

\* input_shape = ct.Shape(...)
DeclareShape ==
    /\ pc = "Traced"
    /\ input_shape' = InputShape(p, num_samples)
    /\ pc' = "ShapeDeclared"
    /\ log' = Append(log, "Shape")
    /\ UNCHANGED <<run, fs, p, epoch, num_samples, traced_model, mlmodel, returned,
                   exitStatus, reported>>

\* mlmodel = ct.convert(...)
Convert ==
    /\ pc = "ShapeDeclared"
    /\ mlmodel' = ConvertedModel(input_shape)
    /\ pc' = "Lowered"
    /\ log' = Append(log, "convert")
    /\ UNCHANGED <<run, fs, p, epoch, num_samples, traced_model, input_shape, returned,
                   exitStatus, reported>>

\* mlmodel.author / license / short_description / version
AddMetadata ==
    /\ pc = "Lowered"
    /\ mlmodel' = WithMetadata(mlmodel, epoch)
    /\ pc' = "MetadataSet"
    /\ log' = Append(log, "metadata")
    /\ UNCHANGED <<run, fs, p, epoch, num_samples, traced_model, input_shape, returned,
                   exitStatus, reported>>

\* mlmodel.save(output_path) returns, the information prints, return True.
SaveOk ==
    /\ pc = "MetadataSet"
    /\ artifact' = SavedPackage(mlmodel)
    /\ wrote' = TRUE
    /\ returned' = "True"
    /\ pc' = "Exported"
    /\ log' = Append(log, "save")
    /\ UNCHANGED <<run, dirExists, artifact0, locals, exitStatus, reported>>

\* The call of the try block that is next in line raises.
NextExportCall ==
    CASE pc = "Traced" -> "Shape"
      [] pc = "ShapeDeclared" -> "convert"
      [] pc = "Lowered" -> "metadata"
      [] pc = "MetadataSet" -> "save"

\* Any statement of the second try block raises: the handler prints and returns
\* False.  It removes nothing, so a save that raised after it began writing leaves
\* what it had written.
ExportRaise ==
    /\ pc \in {"Traced", "ShapeDeclared", "Lowered", "MetadataSet"}
    /\ log' = Append(log, NextExportCall)
    /\ \E w \in (IF pc = "MetadataSet" THEN BOOLEAN ELSE {FALSE}) :
          /\ wrote' = w
          /\ artifact' = IF w THEN PartialFile ELSE artifact
    /\ reported' = reported \cup {"ExportFailure"}
    /\ returned' = "False"
    /\ pc' = "ExportFailed"
    /\ UNCHANGED <<run, dirExists, artifact0, locals, exitStatus>>

\* Faulty variant: the two exit statuses are swapped.
SysExitSwapped ==
    /\ pc \in {"Exported", "TraceFailed", "ExportFailed"}
    /\ exitStatus' = IF returned = "True" THEN 1 ELSE 0
    /\ pc' = "Exited"
    /\ UNCHANGED <<run, fs, locals, returned, reported, log>>

\* ---- __main__ after convert_model returned -------------------------------------
\* if success: sys.exit(0) else: sys.exit(1)
SysExit ==
    /\ pc \in {"Exported", "TraceFailed", "ExportFailed"}
    /\ exitStatus' = IF returned = "True" THEN 0 ELSE 1
    /\ pc' = "Exited"
    /\ UNCHANGED <<run, fs, locals, returned, reported, log>>

\* The script is invoked again: a new process, the file system as it was left.
Rerun ==
    /\ pc = "Exited"
    /\ run < MaxRuns
    /\ run' = run + 1
    /\ pc' = "Boot"
    /\ artifact0' = artifact
    /\ wrote' = FALSE
    /\ p' = NoParams
    /\ epoch' = NoEpoch
    /\ num_samples' = 0
    /\ traced_model' = FALSE
    /\ input_shape' = NoShape
    /\ mlmodel' = NoModel
    /\ returned' = "unset"
    /\ exitStatus' = -1
    /\ reported' = {}
    /\ log' = <<>>
    /\ UNCHANGED <<dirExists, artifact>>

Next ==
    \/ Mkdir
    \/ InitDf
    \/ InitDfRaise
    \/ BuildExample
    \/ TraceOk
    \/ TraceRaise
    \/ DeclareShape
    \/ Convert
    \/ AddMetadata
    \/ SaveOk
    \/ ExportRaise
    \/ SysExit
    \/ Rerun

Spec == Init /\ [][Next]_vars

\* ---- vocabulary of the properties ----------------------------------------------
InLog(call) == \E i \in 1..Len(log) : log[i] = call

IsPrefix(s, t) == Len(s) <= Len(t) /\ \A i \in 1..Len(s) : s[i] = t[i]

\* The one order in which an invocation may make its calls.
StageOrder == <<"mkdir", "init_df", "randn", "trace", "Shape", "convert", "metadata", "save">>

Terminal == {"Exported", "TraceFailed", "ExportFailed"}

TraceFailedRun == "TraceFailure" \in reported /\ pc \in {"TraceFailed", "Exited"}

ExportFailedRun == "ExportFailure" \in reported /\ pc \in {"ExportFailed", "Exited"}

\* The run is over, its trace returned and its lowering returned.
TracedAndLowered ==
    pc \in Terminal \cup {"Exited"} /\ traced_model /\ mlmodel.kind = "mlmodel"

DigitValue(c) ==
    CASE c = "0" -> 0 [] c = "1" -> 1 [] c = "2" -> 2 [] c = "3" -> 3 [] c = "4" -> 4
      [] c = "5" -> 5 [] c = "6" -> 6 [] c = "7" -> 7 [] c = "8" -> 8 [] c = "9" -> 9
      [] OTHER -> -1

RECURSIVE DecimalValue(_)
DecimalValue(s) ==
    IF Len(s) = 0
        THEN 0
        ELSE 10 * DecimalValue(SubSeq(s, 1, Len(s) - 1)) + DigitValue(SubSeq(s, Len(s), Len(s)))

\* s is the decimal numeral of n.
IsDecimalOf(s, n) ==
    /\ Len(s) > 0
    /\ \A i \in 1..Len(s) : DigitValue(SubSeq(s, i, i)) >= 0
    /\ Len(s) > 1 => SubSeq(s, 1, 1) # "0"
    /\ DecimalValue(s) = n

\* v is the prefix "3.0." followed by the text of epoch e.
IsVersionOf(v, e) ==
    /\ Len(v) > 4
    /\ SubSeq(v, 1, 4) = "3.0."
    /\ IF e.kind = "str"
          THEN SubSeq(v, 5, Len(v)) = e.s
          ELSE IsDecimalOf(SubSeq(v, 5, Len(v)), e.n)

MetadataSet(m) ==
    /\ m.author # ""
    /\ m.license # ""
    /\ m.short_description # ""
    /\ m.version # ""
    /\ m.inputName = "audio"
    /\ m.outputName = "enhanced_audio"

ShapeChain ==
    /\ input_shape.lower_bound = p.hop_size
    /\ input_shape.lower_bound <= num_samples
    /\ num_samples = 2 * p.fft_size
    /\ num_samples <= input_shape.upper_bound
    /\ input_shape.upper_bound = 20 * p.fft_size

ScenarioA ==
    (p.fft_size = 768 /\ p.hop_size = 384) =>
        /\ num_samples = 1536
        /\ input_shape.lower_bound = 384
        /\ input_shape.upper_bound = 15360

\* ---- C1 ---------------------------------------------------------------------------
\* C1 as stated: whenever the shape contract is built from parameters with hopSize > 0
\* and fftSize > 0, hopSize = minLength <= exampleLength = 2*fftSize <= maxLength =
\* 20*fftSize, and 768/384 gives 1536, 384, 15360.
C1_AnyPositiveParameters ==
    input_shape.kind = "shape" =>
        /\ (p.hop_size > 0 /\ p.fft_size > 0) => ShapeChain
        /\ ScenarioA

\* C1 amended: the same chain, for parameters with 0 < hopSize <= 2*fftSize (the code
\* does not relate hop_size to fft_size, so minLength <= exampleLength needs it).
C1_ShapeContract ==
    input_shape.kind = "shape" =>
        /\ (p.hop_size > 0 /\ p.fft_size > 0 /\ p.hop_size <= 2 * p.fft_size) => ShapeChain
        /\ ScenarioA

C1_Witness ==
    /\ input_shape.kind = "shape"
    /\ p.fft_size = 768 /\ p.hop_size = 384
    /\ num_samples = 1536
    /\ input_shape.lower_bound = 384 /\ input_shape.upper_bound = 15360

\* ---- C2 ---------------------------------------------------------------------------
\* C2: a run whose Format Exporter raised (lowering, metadata or save) has returned
\* False and no file is at the output path.
C2_ExportAllOrNothing ==
    ExportFailedRun => returned = "False" /\ artifact = NoFile

\* ---- C3 ---------------------------------------------------------------------------
\* C3 as stated: a run whose trace raised has returned False, exits with status 1, and
\* no file is at the output path.
C3_NoFileAfterTraceFailure ==
    TraceFailedRun =>
        /\ returned = "False"
        /\ pc = "Exited" => exitStatus = 1
        /\ artifact = NoFile

\* C3 amended: a run whose trace raised has returned False, exits with status 1, and has
\* written nothing: the output path holds what it held when the run began (no file if
\* there was none).
C3_TraceFailureWritesNothing ==
    TraceFailedRun =>
        /\ returned = "False"
        /\ pc = "Exited" => exitStatus = 1
        /\ ~wrote
        /\ artifact = artifact0

C3_Witness ==
    /\ pc = "Exited"
    /\ reported = {"TraceFailure"}
    /\ returned = "False"
    /\ exitStatus = 1
    /\ artifact = NoFile

\* ---- C4 ---------------------------------------------------------------------------
\* C4: every ended run has returned True or False, True exactly when it wrote the
\* artifact and False exactly when it wrote none, and exits 0 on True and 1 on False.
C4_BinaryOutcome ==
    pc = "Exited" =>
        /\ returned \in {"True", "False"}
        /\ returned = "True" <=> wrote
        /\ returned = "False" <=> ~wrote
        /\ returned = "True" => exitStatus = 0
        /\ returned = "False" => exitStatus = 1

\* ---- C5 ---------------------------------------------------------------------------
\* C5 as stated: a run whose trace and lowering both returned has returned True, the
\* artifact is at the output path, and its version is "3.0." followed by the epoch.
C5_TraceAndLowerSuffice ==
    TracedAndLowered =>
        /\ returned = "True"
        /\ artifact.kind = "package"
        /\ IsVersionOf(artifact.version, epoch)

\* C5 amended: a run whose trace and lowering both returned, and in which neither the
\* metadata assignment nor the save raised, has returned True, the artifact is at the
\* output path, and its version is "3.0." followed by the epoch (a function of the epoch
\* alone).
C5_SuccessVersion ==
    (TracedAndLowered /\ "ExportFailure" \notin reported) =>
        /\ returned = "True"
        /\ artifact.kind = "package"
        /\ IsVersionOf(artifact.version, epoch)

C5_Witness ==
    /\ pc = "Exported"
    /\ returned = "True"
    /\ epoch = [kind |-> "str", s |-> "best"]
    /\ artifact.kind = "package"
    /\ artifact.version = "3.0.best"

\* ---- C6 ---------------------------------------------------------------------------
\* Each call is made only after the one before it completed.
EachAfterPrevious ==
    /\ InLog("randn") => p.kind = "params"
    /\ InLog("trace") => num_samples = 2 * p.fft_size
    /\ InLog("Shape") => traced_model
    /\ InLog("convert") => input_shape.kind = "shape"
    /\ InLog("metadata") => mlmodel.kind = "mlmodel"
    /\ InLog("save") => mlmodel.version # ""

TerminalOnlyExits ==
    pc \in Terminal =>
        /\ pc' = "Exited"
        /\ log' = log
        /\ UNCHANGED <<locals, artifact, wrote, returned, reported>>

\* C6: the calls of a run are made in the one order loader, example, trace, export,
\* each at most once and only after the previous completed; from Exported, TraceFailed
\* or ExportFailed the only step is the process exit, which makes no call and changes
\* nothing the stages produced.
C6_LinearOnce ==
    /\ [](IsPrefix(log, StageOrder) /\ EachAfterPrevious)
    /\ [][TerminalOnlyExits]_vars

C6_Witness ==
    /\ pc = "Exited"
    /\ log = StageOrder
    /\ returned = "True"

\* ---- C7 ---------------------------------------------------------------------------
\* C7: TraceFailure is reported only when the trace raised, and then Shape, convert and
\* save were never called; ExportFailure only when the trace returned; never both; and
\* a run that reported either has not returned True.
C7_FailureKinds ==
    /\ "TraceFailure" \in reported =>
          /\ InLog("trace") /\ ~traced_model
          /\ ~InLog("Shape") /\ ~InLog("convert") /\ ~InLog("save")
    /\ "ExportFailure" \in reported => traced_model
    /\ Cardinality(reported) <= 1
    /\ reported # {} => returned = "False"

C7_Witness ==
    /\ pc = "ExportFailed"
    /\ reported = {"ExportFailure"}
    /\ traced_model
    /\ InLog("convert")

\* ---- C8 ---------------------------------------------------------------------------
\* C8: every package at the output path carries the four metadata fields and the names
\* "audio" and "enhanced_audio", and save is only ever called on a model that has them.
C8_MetadataBeforeSave ==
    /\ artifact.kind = "package" => MetadataSet(artifact)
    /\ InLog("save") => MetadataSet(mlmodel)

C8_Witness ==
    /\ artifact.kind = "package"
    /\ wrote
    /\ artifact.author = "Vocana (DeepFilterNet by Rikorose)"
    /\ artifact.license = "MIT/Apache-2.0"

\* ---- C9 ---------------------------------------------------------------------------
ParametersReadOnly ==
    (p.kind = "params" /\ pc' # "Boot") => (p' = p /\ epoch' = epoch)

FailingStepKeepsState ==
    (pc' \in {"TraceFailed", "ExportFailed"} /\ pc' # pc) =>
        UNCHANGED <<p, epoch, num_samples, input_shape>>

DerivedStillValid ==
    (TraceFailedRun \/ ExportFailedRun) =>
        /\ num_samples = 2 * p.fft_size
        /\ input_shape.kind = "shape" =>
              /\ input_shape.lower_bound = p.hop_size
              /\ input_shape.upper_bound = 10 * num_samples

\* C9: once loaded, the parameters and the epoch never change for the rest of the run;
\* the step into TraceFailed or ExportFailed changes neither them nor the example
\* length nor the declared shape; and in a failed run the derived values still are what
\* the parameters give.
C9_FailureKeepsState ==
    /\ [][ParametersReadOnly]_vars
    /\ [][FailingStepKeepsState]_vars
    /\ []DerivedStillValid

C9_Witness ==
    /\ pc = "ExportFailed"
    /\ p.kind = "params" /\ p.fft_size = 2 /\ p.hop_size = 1
    /\ num_samples = 4
    /\ input_shape.kind = "shape" /\ input_shape.upper_bound = 40

\* ---- C10 --------------------------------------------------------------------------
\* Creating the directory when it exists succeeds and changes nothing: a later run gets
\* past mkdir with the directory and the file at the output path as they were.
MkdirIdempotent ==
    (run > 1 /\ pc = "Start") => (dirExists /\ artifact = artifact0)

\* The directory exists whenever convert_model runs, so whenever an artifact is written.
DirBeforeArtifact ==
    /\ pc # "Boot" => dirExists
    /\ (InLog("save") \/ wrote \/ artifact # NoFile) => dirExists

\* C10: the directory is created before any artifact is written, idempotently, and
\* after a run that fails the directory exists while the artifact file does not.
C10_NoFileAfterFailure ==
    /\ MkdirIdempotent
    /\ DirBeforeArtifact
    /\ (TraceFailedRun \/ ExportFailedRun) => (dirExists /\ artifact = NoFile)

====
